---- MODULE Spec2Model ----
(***************************************************************************)
(* A model of foreign_vec::ForeignVec<D, T> (src/src/lib.rs): one buffer,  *)
(* from its construction (From<Vec<T>> or from_owned) through reads,       *)
(* get_vec, mutations made through the handle get_vec returns and debug    *)
(* rendering, to its destruction.  Memory is a flat array of cells; a      *)
(* Vec<T> is its (ptr, len, cap) triple; every release of memory and every *)
(* destructor that runs is appended to log.                                *)
(***************************************************************************)
EXTENDS Integers, Sequences, FiniteSets, TLC

VARIABLES
    pc,          \* "start" | "live" | "dropped" | "panicked"
    arg,         \* the caller's argument: a Vec<T>, or (ptr, len, owner)
    data,        \* ForeignVec.data: the (ptr, len, cap) of ManuallyDrop<Vec<T>>
    allocation,  \* ForeignVec.allocation: "Native" | "Foreign" ("None": no buffer)
    owner,       \* the D held by Allocation::Foreign(D)
    mem,         \* memory: address -> cell
    allocs,      \* every block handed out so far: [base, by]
    brk,         \* the next address the allocator hands out
    log,         \* destructors run and blocks released, in order
    elems,       \* the element sequence the buffer stands for
    ret          \* the last operation on the buffer and what it returned

vars == <<pc, arg, data, allocation, owner, mem, allocs, brk, log, elems, ret>>

-----------------------------------------------------------------------------
(* Bounds of the model *)

MaxLen == 3
MaxCap == 3
MaxVal == 2

Values == 1..MaxVal

-----------------------------------------------------------------------------
(* Memory *)

\* the null pointer tested by ptr.is_null()
NULL == 0
\* the non-null, never allocated pointer of an empty Vec (Vec::new())
Dangling == 1
\* the first address the allocators hand out
HeapBase == Dangling + 1
MemTop == HeapBase + MaxCap * (MaxCap + 2)
Addr == 0..MemTop
\* what a cell holding no initialized element reads as: no element value
Uninit == MaxVal + 1

Range(p, n) == p..(p + n - 1)

\* slice::from_raw_parts(p, n): the n cells from p on
Slice(m, p, n) == [i \in 1..n |-> m[p + i - 1]]

\* m with the cells in cells overwritten with Uninit
Poison(m, cells) == [a \in Addr |-> IF a \in cells THEN Uninit ELSE m[a]]

\* m with the sequence s stored from p on
Store(m, p, s) ==
    [a \in Addr |-> IF a \in Range(p, Len(s)) THEN s[a - p + 1] ELSE m[a]]

Event(e, a) == [ev |-> e, addr |-> a]

Count(l, e) == Cardinality({i \in 1..Len(l) : l[i].ev = e})

CountAt(l, e, a) == Cardinality({i \in 1..Len(l) : l[i].ev = e /\ l[i].addr = a})

NoData == [ptr |-> NULL, len |-> 0, cap |-> 0]
NoOwner == [kind |-> "None", ptr |-> NULL, capacity |-> 0]
NoRet == [op |-> "none", view |-> <<>>, some |-> FALSE, out |-> <<>>]

\* all sequences over Values of length n
RECURSIVE SeqsOfLen(_)
SeqsOfLen(n) ==
    IF n = 0 THEN {<<>>}
    ELSE {Append(s, v) : s \in SeqsOfLen(n - 1), v \in Values}

-----------------------------------------------------------------------------
(* Vec<T> *)

\* Vec::new(), the Default that mem::take leaves behind
VecNew == [ptr |-> Dangling, len |-> 0, cap |-> 0]

\* Vec::from_raw_parts(ptr, length, capacity)
VecFromRawParts(p, l, c) == [ptr |-> p, len |-> l, cap |-> c]

\* <Vec<T> as Drop>::drop followed by RawVec's: the elements are dropped and
\* a block of non-zero capacity is returned to the allocator
VecDropEvents(v) ==
    <<Event("Vec::drop", v.ptr)>>
        \o (IF v.cap > 0 THEN <<Event("dealloc", v.ptr)>> ELSE <<>>)

VecDropCells(v) == Range(v.ptr, v.cap)

-----------------------------------------------------------------------------
(* The owner D.  Its destruction is opaque to the library: it either       *)
(* releases the region (the Foreign of the tests) or does nothing (leak).  *)

OwnerDropEvents(o) ==
    <<Event("D::drop", o.ptr)>>
        \o (IF o.kind = "Free" /\ o.capacity > 0
            THEN <<Event("dealloc", o.ptr)>> ELSE <<>>)

OwnerDropCells(o) ==
    IF o.kind = "Free" THEN Range(o.ptr, o.capacity) ELSE {}

-----------------------------------------------------------------------------
(* ForeignVec<D, T> *)

\* <ForeignVec as Deref>::deref: &self.data, the slice of the Vec
Deref(d, m) == Slice(m, d.ptr, d.len)

\* a from that tags the buffer as foreign-owned
FromAllocationForeign == "Foreign"

\* the origin From<Vec<T>>::from tags the buffer with
FromAllocation == "Native"

\* the data From<Vec<T>>::from stores: ManuallyDrop::new(data)
FromData(v) == v

\* a from_owned that builds the Vec one element short
FromOwnedDataShort(p, l) == VecFromRawParts(p, IF l > 0 THEN l - 1 ELSE 0, l)

\* the data from_owned stores: Vec::from_raw_parts(ptr as *mut T, len, len)
FromOwnedData(p, l) == VecFromRawParts(p, l, l)

\* the origin from_owned tags the buffer with
FromOwnedAllocation == "Foreign"

\* a from_owned without the assertion
IsNullUnchecked(p) == FALSE

\* the check from_owned asserts the negation of: ptr.is_null()
IsNull(p) == p = NULL

\* a from_owned that lets owner go out of scope instead of storing it
FromOwnedDroppedOwner(o) == OwnerDropEvents(o)

\* what goes out of scope when from_owned returns: nothing, owner is moved
\* into Allocation::Foreign(owner)
FromOwnedDropped(o) == <<>>

\* a get_vec that hands out the Vec whatever the origin
GetVecAlways(al) == TRUE

\* a get_vec with its arms exchanged
GetVecSwapped(al) == al = "Foreign"

\* get_vec: TRUE for Some(self.data.deref_mut()), FALSE for None
GetVec(al) == al = "Native"

\* <[T] as Debug>::fmt: a debug list of the elements
RECURSIVE FmtEntries(_)
FmtEntries(s) ==
    IF Len(s) = 0 THEN <<>>
    ELSE IF Len(s) = 1 THEN <<ToString(s[1])>>
    ELSE <<ToString(s[1]), ", ">> \o FmtEntries(Tail(s))

FmtSlice(s) == <<"[">> \o FmtEntries(s) \o <<"]">>

\* a fmt that renders the origin of a foreign buffer
FmtTagged(al, d, m) ==
    IF al = "Foreign" THEN <<"Foreign(">> \o FmtSlice(Slice(m, d.ptr, d.len)) \o <<")">>
    ELSE FmtSlice(Slice(m, d.ptr, d.len))

\* <ForeignVec as Debug>::fmt: Debug::fmt(&**self, f)
Fmt(al, d, m) == FmtSlice(Deref(d, m))

\* a drop that releases the Vec in both arms
ForeignVecDropBoth(al, d) ==
    [data |-> VecNew, events |-> VecDropEvents(d), cells |-> VecDropCells(d)]

\* a drop that releases the Vec in neither arm
ForeignVecDropLeak(al, d) == [data |-> d, events |-> <<>>, cells |-> {}]

\* a drop whose Native arm drops the Vec in place and then again by value
ForeignVecDropTwice(al, d) ==
    IF al = "Foreign"
    THEN [data |-> d, events |-> <<>>, cells |-> {}]
    ELSE [data |-> VecNew, events |-> VecDropEvents(d) \o VecDropEvents(d),
          cells |-> VecDropCells(d)]

\* <ForeignVec as Drop>::drop: the Native arm takes the Vec out of self.data
\* (leaving Vec::new()) and drops it; the Foreign arm does nothing
ForeignVecDrop(al, d) ==
    IF al = "Foreign"
    THEN [data |-> d, events |-> <<>>, cells |-> {}]
    ELSE [data |-> VecNew, events |-> VecDropEvents(d), cells |-> VecDropCells(d)]

\* the fields dropped after drop returns, in declaration order: data is a
\* ManuallyDrop (nothing runs), allocation drops the D of Foreign(D)
DropFields(al, o) ==
    IF al = "Foreign"
    THEN [events |-> OwnerDropEvents(o), cells |-> OwnerDropCells(o)]
    ELSE [events |-> <<>>, cells |-> {}]

-----------------------------------------------------------------------------
(* The Vec<T> operations reachable through the handle of get_vec *)

\* Vec growth to capacity nc > d.cap at allocator position b: a first
\* allocation, a reallocation that moves the block, or one that extends it
Grow(d, m, b, nc) ==
    IF d.cap = 0
    THEN {[data |-> [ptr |-> b, len |-> d.len, cap |-> nc], mem |-> m,
           brk |-> b + nc, events |-> <<>>,
           blocks |-> {[base |-> b, by |-> "rust"]}]}
    ELSE {[data |-> [ptr |-> b, len |-> d.len, cap |-> nc],
           mem |-> Poison(Store(m, b, Slice(m, d.ptr, d.len)), Range(d.ptr, d.cap)),
           brk |-> b + nc, events |-> <<Event("realloc", d.ptr)>>,
           blocks |-> {[base |-> b, by |-> "rust"]}]}
         \cup
         (IF d.ptr + d.cap = b
          THEN {[data |-> [d EXCEPT !.cap = nc], mem |-> m,
                 brk |-> d.ptr + nc, events |-> <<>>, blocks |-> {}]}
          ELSE {})

\* Vec::push(v): the outcomes, with the capacity the allocator grants
VecPush(d, m, b, v) ==
    IF d.len < d.cap
    THEN {[data |-> [d EXCEPT !.len = d.len + 1],
           mem |-> [m EXCEPT ![d.ptr + d.len] = v],
           brk |-> b, events |-> <<>>, blocks |-> {}]}
    ELSE {[g EXCEPT !.data = [g.data EXCEPT !.len = d.len + 1],
                    !.mem = [g.mem EXCEPT ![g.data.ptr + d.len] = v]] :
             g \in UNION {Grow(d, m, b, nc) : nc \in (d.len + 1)..MaxCap}}

\* Vec::truncate(n)
VecTruncate(d, n) == IF n < d.len THEN [d EXCEPT !.len = n] ELSE d

-----------------------------------------------------------------------------
(* The state machine *)

Blank == [a \in Addr |-> Uninit]

\* the caller holds a Vec<T> with contents s and capacity c
InitVec ==
    \E n \in 0..MaxLen : \E s \in SeqsOfLen(n) : \E c \in n..MaxCap :
        /\ arg = [kind |-> "vec", ptr |-> IF c = 0 THEN Dangling ELSE HeapBase,
                  len |-> n, cap |-> c, owner |-> NoOwner]
        /\ mem = Store(Blank, HeapBase, s)
        /\ allocs = IF c = 0 THEN {} ELSE {[base |-> HeapBase, by |-> "rust"]}
        /\ brk = HeapBase + c
        /\ elems = s

\* the caller holds a pointer p (null, or into a foreign block of fc
\* initialized elements), a length n within the block, and the block's owner
InitRaw ==
    \E fc \in 1..MaxCap : \E r \in SeqsOfLen(fc) : \E k \in {"Free", "Noop"} :
    \E p \in {NULL} \cup (HeapBase..(HeapBase + fc)) : \E n \in 0..MaxLen :
        /\ p # NULL => p + n <= HeapBase + fc
        /\ arg = [kind |-> "raw", ptr |-> p, len |-> n, cap |-> n,
                  owner |-> [kind |-> k, ptr |-> HeapBase, capacity |-> fc]]
        /\ mem = Store(Blank, HeapBase, r)
        /\ allocs = {[base |-> HeapBase, by |-> "foreign"]}
        /\ brk = HeapBase + fc
        /\ elems = IF p = NULL THEN <<>>
                   ELSE SubSeq(r, p - HeapBase + 1, p - HeapBase + n)

Init ==
    /\ pc = "start"
    /\ data = NoData
    /\ allocation = "None"
    /\ owner = NoOwner
    /\ log = <<>>
    /\ ret = NoRet
    /\ (InitVec \/ InitRaw)

\* From<Vec<T>>::from(data)
From ==
    /\ pc = "start"
    /\ arg.kind = "vec"
    /\ data' = FromData(VecFromRawParts(arg.ptr, arg.len, arg.cap))
    /\ allocation' = FromAllocation
    /\ pc' = "live"
    /\ ret' = [NoRet EXCEPT !.op = "from"]
    /\ UNCHANGED <<arg, owner, mem, allocs, brk, log, elems>>

\* ForeignVec::from_owned(ptr, len, owner): the assertion fails on a null
\* ptr, and owner is then dropped by the unwinding, or not at all when the
\* build aborts on panic
FromOwned ==
    /\ pc = "start"
    /\ arg.kind = "raw"
    /\ IF IsNull(arg.ptr)
       THEN /\ pc' = "panicked"
            /\ \E unwind \in BOOLEAN :
                 /\ log' = IF unwind THEN log \o OwnerDropEvents(arg.owner) ELSE log
                 /\ mem' = IF unwind THEN Poison(mem, OwnerDropCells(arg.owner)) ELSE mem
            /\ ret' = [NoRet EXCEPT !.op = "panic"]
            /\ UNCHANGED <<data, allocation, owner>>
       ELSE /\ data' = FromOwnedData(arg.ptr, arg.len)
            /\ allocation' = FromOwnedAllocation
            /\ owner' = arg.owner
            /\ log' = log \o FromOwnedDropped(arg.owner)
            /\ pc' = "live"
            /\ ret' = [NoRet EXCEPT !.op = "from_owned"]
            /\ mem' = mem
    /\ UNCHANGED <<arg, allocs, brk, elems>>

\* &*vec
DerefOp ==
    /\ pc = "live"
    /\ ret' = [NoRet EXCEPT !.op = "deref", !.view = Deref(data, mem)]
    /\ UNCHANGED <<pc, arg, data, allocation, owner, mem, allocs, brk, log, elems>>

\* vec.get_vec(), the handle compared by its contents
GetVecOp ==
    /\ pc = "live"
    /\ ret' = [NoRet EXCEPT !.op = "get_vec", !.some = GetVec(allocation),
                            !.view = IF GetVec(allocation) THEN Deref(data, mem)
                                     ELSE <<>>]
    /\ UNCHANGED <<pc, arg, data, allocation, owner, mem, allocs, brk, log, elems>>

\* format!("{:?}", vec)
FmtOp ==
    /\ pc = "live"
    /\ ret' = [NoRet EXCEPT !.op = "fmt", !.out = Fmt(allocation, data, mem)]
    /\ UNCHANGED <<pc, arg, data, allocation, owner, mem, allocs, brk, log, elems>>

\* if let Some(v) = vec.get_vec() { v.push(x) }
Push(x) ==
    /\ pc = "live"
    /\ data.len < MaxLen
    /\ ret' = [NoRet EXCEPT !.op = "push", !.some = GetVec(allocation)]
    /\ IF GetVec(allocation)
       THEN \E r \in VecPush(data, mem, brk, x) :
              /\ data' = r.data
              /\ mem' = r.mem
              /\ brk' = r.brk
              /\ log' = log \o r.events
              /\ allocs' = allocs \cup r.blocks
              /\ elems' = Append(elems, x)
       ELSE UNCHANGED <<data, mem, brk, log, allocs, elems>>
    /\ UNCHANGED <<pc, arg, allocation, owner>>

\* if let Some(v) = vec.get_vec() { v.truncate(n) }
Truncate(n) ==
    /\ pc = "live"
    /\ ret' = [NoRet EXCEPT !.op = "truncate", !.some = GetVec(allocation)]
    /\ IF GetVec(allocation)
       THEN /\ data' = VecTruncate(data, n)
            /\ elems' = IF n < Len(elems) THEN SubSeq(elems, 1, n) ELSE elems
       ELSE UNCHANGED <<data, elems>>
    /\ UNCHANGED <<pc, arg, allocation, owner, mem, allocs, brk, log>>

\* if let Some(v) = vec.get_vec() { if let Some(e) = v.get_mut(i - 1) { *e = x } }
Set(i, x) ==
    /\ pc = "live"
    /\ ret' = [NoRet EXCEPT !.op = "set", !.some = GetVec(allocation)]
    /\ IF GetVec(allocation) /\ i <= data.len
       THEN /\ mem' = [mem EXCEPT ![data.ptr + i - 1] = x]
            /\ elems' = [elems EXCEPT ![i] = x]
       ELSE UNCHANGED <<mem, elems>>
    /\ UNCHANGED <<pc, arg, data, allocation, owner, allocs, brk, log>>

\* drop(vec): <ForeignVec as Drop>::drop, then the fields
Drop ==
    /\ pc = "live"
    /\ LET b == ForeignVecDrop(allocation, data)
           f == DropFields(allocation, owner)
       IN /\ data' = b.data
          /\ log' = log \o <<Event("ForeignVec::drop", data.ptr)>>
                        \o b.events \o f.events
          /\ mem' = Poison(mem, b.cells \cup f.cells)
    /\ pc' = "dropped"
    /\ ret' = [NoRet EXCEPT !.op = "drop"]
    /\ UNCHANGED <<arg, allocation, owner, allocs, brk, elems>>

Next ==
    \/ From
    \/ FromOwned
    \/ DerefOp
    \/ GetVecOp
    \/ FmtOp
    \/ \E x \in Values : Push(x)
    \/ \E n \in 0..MaxLen : Truncate(n)
    \/ \E i \in 1..MaxLen : \E x \in Values : Set(i, x)
    \/ Drop

Spec == Init /\ [][Next]_vars

-----------------------------------------------------------------------------
(* Properties *)

Bases == {b.base : b \in allocs}

\* the times the block at address a was given back: by a deallocation or by a
\* reallocation that moved it
Releases(a) == CountAt(log, "dealloc", a) + CountAt(log, "realloc", a)

HandleOps == {"get_vec", "push", "truncate", "set"}

\* C1: once a buffer built by from_owned is destroyed, the owner's
\* destruction has run exactly once and the Vec deallocation path never: one
\* release action in all, and the region is given back at most once (exactly
\* once by an owner that frees it, never by an owner whose drop is a no-op)
C1_ForeignReleasedOnce ==
    (arg.kind = "raw" /\ pc = "dropped") =>
        /\ Count(log, "D::drop") = 1
        /\ Count(log, "Vec::drop") = 0
        /\ Count(log, "realloc") = 0
        /\ Count(log, "D::drop") + Count(log, "Vec::drop") = 1
        /\ Count(log, "dealloc") = CountAt(log, "dealloc", arg.owner.ptr)
        /\ Releases(arg.owner.ptr) = IF arg.owner.kind = "Free" THEN 1 ELSE 0

C1_Witness ==
    /\ pc = "dropped"
    /\ arg.kind = "raw"
    /\ arg.owner.kind = "Free"
    /\ arg.len = 2
    /\ Releases(arg.owner.ptr) = 1

\* C2: once a buffer built from a Vec is destroyed, the Vec deallocation path
\* has run exactly once, the block that was current is given back exactly
\* once, and no owner destruction has run: the buffer holds no owner
C2_NativeReleasedOnce ==
    (arg.kind = "vec" /\ pc = "dropped") =>
        /\ Count(log, "Vec::drop") = 1
        /\ Count(log, "D::drop") = 0
        /\ Count(log, "dealloc") <= 1
        /\ \A a \in Bases : CountAt(log, "realloc", a) = 0
                                => CountAt(log, "dealloc", a) = 1
        /\ allocation = "Native"
        /\ owner = NoOwner

C2_Witness ==
    /\ pc = "dropped"
    /\ arg.kind = "vec"
    /\ arg.cap > 0
    /\ Count(log, "dealloc") = 1
    /\ Count(log, "Vec::drop") = 1

\* C3: the buffer From makes of a Vec with contents S (empty or not) reads
\* as S, element for element and with the length of S, and get_vec on it is
\* Some handle with contents S
C3_FromReadsAsInput ==
    (arg.kind = "vec" /\ ret.op = "from") =>
        /\ pc = "live"
        /\ Len(Deref(data, mem)) = arg.len
        /\ Deref(data, mem) = elems
        /\ GetVec(allocation)
        /\ data = [ptr |-> arg.ptr, len |-> arg.len, cap |-> arg.cap]

C3_Witness ==
    /\ ret.op = "from"
    /\ arg.kind = "vec"
    /\ elems = <<1, 2>>
    /\ Deref(data, mem) = <<1, 2>>

\* C4: the buffer from_owned makes of a non-null ptr, a length len (0
\* included) and an owner reads as the len elements of [ptr, ptr+len), and
\* get_vec on it is None
C4_FromOwnedReadsRegion ==
    (arg.kind = "raw" /\ pc = "live") =>
        /\ data.ptr = arg.ptr
        /\ Len(Deref(data, mem)) = arg.len
        /\ Deref(data, mem) = elems
        /\ ~GetVec(allocation)
        /\ ret.op = "deref" => ret.view = elems /\ Len(ret.view) = arg.len
        /\ ret.op = "get_vec" => ~ret.some

C4_Witness ==
    /\ arg.kind = "raw"
    /\ ret.op = "deref"
    /\ arg.ptr > HeapBase
    /\ arg.len = 2
    /\ ret.view = elems

\* C5: from_owned with a null ptr panics whatever the length and the owner,
\* before anything is built: no buffer exists afterwards, and no Foreign
\* buffer ever has a null pointer
C5_NullPanics ==
    /\ (arg.kind = "raw" /\ arg.ptr = NULL /\ pc # "start") =>
            /\ pc = "panicked"
            /\ ret.op = "panic"
            /\ allocation = "None"
            /\ data = NoData
            /\ owner = NoOwner
    /\ ~(allocation = "Foreign" /\ data.ptr = NULL)

C5_Witness ==
    /\ pc = "panicked"
    /\ arg.ptr = NULL
    /\ arg.len = 0
    /\ arg.owner.kind = "Noop"

\* C6: no operation on a live Foreign buffer changes its pointer, length,
\* capacity (= length), region contents, owner or origin, or allocates,
\* reallocates or releases anything; get_vec and the mutations that go
\* through it find None
C6_ForeignImmutable ==
    [][(pc = "live" /\ allocation = "Foreign" /\ pc' = "live") =>
            /\ data' = data
            /\ data.cap = data.len
            /\ mem' = mem
            /\ owner' = owner
            /\ allocation' = allocation
            /\ elems' = elems
            /\ allocs' = allocs /\ brk' = brk /\ log' = log
            /\ ret'.op \in HandleOps => ~ret'.some]_vars

C6_Witness ==
    /\ pc = "live"
    /\ allocation = "Foreign"
    /\ ret.op = "push"
    /\ data.len = 1
    /\ data.cap = 1

\* C7: the debug rendering of a buffer is the rendering of its element
\* sequence, the same for either origin and any owner: the elements 1, 2
\* render as "[1, 2]"
C7_DebugIsSliceDebug ==
    ret.op = "fmt" =>
        /\ ret.out = FmtSlice(elems)
        /\ elems = <<>> => ret.out = <<"[", "]">>
        /\ elems = <<1, 2>> => ret.out = <<"[", "1", ", ", "2", "]">>

C7_Witness ==
    /\ ret.op = "fmt"
    /\ allocation = "Foreign"
    /\ ret.out = <<"[", "1", ", ", "2", "]">>

\* C8: the origin is the one construction gave: a buffer built from a Vec is
\* Native and one built by from_owned is Foreign in every state, whatever was
\* read or mutated, and get_vec is Some exactly for the buffer built from a Vec
C8_OriginFixed ==
    pc \in {"live", "dropped"} =>
        /\ arg.kind = "vec" <=> allocation = "Native"
        /\ arg.kind = "raw" <=> allocation = "Foreign"
        /\ GetVec(allocation) <=> arg.kind = "vec"
        /\ ret.op \in HandleOps => (ret.some <=> arg.kind = "vec")

C8_Witness ==
    /\ pc = "live"
    /\ arg.kind = "vec"
    /\ ret.op = "get_vec"
    /\ ret.some
    /\ Count(log, "realloc") = 1

\* C9: the owner of a Foreign buffer is not destroyed at construction nor
\* while the buffer is live, so every view is produced with the owner alive;
\* it is destroyed once, in the buffer's destruction and after the buffer's
\* own drop, and no view is produced afterwards
C9_OwnerOutlivesViews ==
    arg.kind = "raw" =>
        /\ pc \in {"start", "live"} => Count(log, "D::drop") = 0
        /\ ret.op \in {"deref", "get_vec", "fmt"} =>
                pc = "live" /\ Count(log, "D::drop") = 0
        /\ pc = "dropped" =>
                /\ ret.op = "drop"
                /\ Count(log, "D::drop") = 1
                /\ \E i, j \in 1..Len(log) :
                        /\ i < j
                        /\ log[i].ev = "ForeignVec::drop"
                        /\ log[j].ev = "D::drop"

C9_Witness ==
    /\ arg.kind = "raw"
    /\ pc = "dropped"
    /\ arg.len = 1
    /\ log[1].ev = "ForeignVec::drop"
    /\ log[2].ev = "D::drop"

\* C10: a Native buffer reads as the contents its handle was left with,
\* whatever was appended (reallocating or not), truncated or edited; while it
\* is live its current block is not released and every block it grew out of
\* was released once, by the reallocation; after its destruction every block
\* it ever had has been released exactly once
C10_NativeMutations ==
    arg.kind = "vec" =>
        /\ pc = "live" =>
                /\ Deref(data, mem) = elems
                /\ ret.op \in {"deref", "get_vec"} => ret.view = elems
                /\ Count(log, "dealloc") = 0
                /\ data.cap > 0 => data.ptr \in Bases /\ Releases(data.ptr) = 0
                /\ \A a \in Bases : a # data.ptr => Releases(a) = 1
        /\ pc = "dropped" =>
                /\ \A a \in Bases : Releases(a) = 1
                /\ \A i \in 1..Len(log) :
                        log[i].ev \in {"dealloc", "realloc"} => log[i].addr \in Bases

C10_Witness ==
    /\ arg.kind = "vec"
    /\ pc = "dropped"
    /\ Count(log, "realloc") = 2
    /\ Cardinality(allocs) = 3
    /\ Count(log, "dealloc") = 1

====
